---- MODULE Spec2Model ----
(***************************************************************************)
(* A model of python-rofi (src/rofi.py): one Rofi instance, the child      *)
(* processes it starts, and the calls made on it by a single-threaded      *)
(* caller.  A blocking dialog is two steps: the call spawns the child and  *)
(* waits (pc = "blocked"); the child's exit, with its return code and its  *)
(* stdout, resumes the handler.  Everything else a handler does between    *)
(* two waits is one step.                                                  *)
(***************************************************************************)
EXTENDS Integers, Sequences, FiniteSets, TLC

VARIABLES
    hasTimeout,    \* hasattr(subprocess, 'TimeoutExpired'): fixed by the interpreter
    exit_hotkeys,  \* self.exit_hotkeys: the tuple of exit hotkeys given to __init__
    _process,      \* self._process: NoProc (None) or the pid of the status process
    alive,         \* the child processes of this instance that have not exited
    dialog,        \* the pid of the blocking dialog being waited for, or NoProc
    pc,            \* position of the caller's thread
    after,         \* what resumes when close()'s polling loop is left
    count,         \* close()'s local variable count
    slept,         \* how often close()'s polling loop has slept
    op,            \* the most recent call and its arguments
    ret,           \* how that call ended, or that it is pending
    events,        \* signals sent and processes spawned since the most recent
                   \* entry into close(), _run_blocking() or _run_nonblocking()
    last           \* the most recent run of a dialog in that call: its return
                   \* code and stdout, and what the validator was given and said

vars == <<hasTimeout, exit_hotkeys, _process, alive, dialog, pc, after, count,
          slept, op, ret, events, last>>

----------------------------------------------------------------------------
(* Bounds of the model. *)

MaxPids == 3          \* size of the pool of process ids
MaxOpts == 2          \* select(): at most this many options
MaxCode == 22         \* the largest return code the external program gives
MaxLimit == 1         \* typed entries: limits range over 0 .. MaxLimit

(* Program constants. *)

PollLimit == 100      \* close(): while count < 100
FirstExitSlot == 10   \* select(): next_key = 10
KeyOffset == 9        \* select(): returncode > 9, key = returncode - 9

NoProc == 0
Pids == 1..MaxPids

----------------------------------------------------------------------------
(* Values.  Text is a sequence of one-character strings.  Every value a    *)
(* call can return is a record of one shape, so that any two compare.      *)

None == [t |-> "None", i |-> 0, k |-> 0, s |-> <<>>]
IntVal(n) == [t |-> "int", i |-> n, k |-> 0, s |-> <<>>]
StrVal(txt) == [t |-> "str", i |-> 0, k |-> 0, s |-> txt]
Pair(index, key) == [t |-> "tuple", i |-> index, k |-> key, s |-> <<>>]

(* An error message: the format string and the number formatted into it.   *)
NoError == [fmt |-> "None", arg |-> 0]
Err(fmt, arg) == [fmt |-> fmt, arg |-> arg]

(* A limit of a typed entry: unset (None) or a number. *)
Unset == [set |-> FALSE, v |-> 0]
Limit(n) == [set |-> TRUE, v |-> n]

(* An event: a signal sent to a process, or a process spawned. *)
Ev(e, p) == [e |-> e, p |-> p]

(* A call record. *)
NoOp ==
    [name |-> "none", n |-> 0, user_keys |-> {}, exit_keys |-> {},
     validator |-> "none",
     min |-> Unset, max |-> Unset, message |-> "", error |-> NoError,
     mesg |-> <<>>]

Ret(call, outcome, exc, val) ==
    [call |-> call, outcome |-> outcome, exc |-> exc, val |-> val]

Returned(call, val) == Ret(call, "return", "", val)
Raised(call, exc) == Ret(call, "raise", exc, None)
Pending(call) == Ret(call, "pending", "", None)
NoCall == Ret("none", "none", "", None)

----------------------------------------------------------------------------
(* Text: str.strip(), str.rstrip('\n'), str(int) and int(str). *)

Whitespace == {" ", "\n", "\t"}
DigitChars == <<"0", "1", "2", "3", "4", "5", "6", "7", "8", "9">>
Digits == {DigitChars[i] : i \in 1..10}

DigitVal(c) == (CHOOSE i \in 1..10 : DigitChars[i] = c) - 1

Front(s) == SubSeq(s, 1, Len(s) - 1)

RECURSIVE RStripOf(_, _)
RStripOf(s, chars) ==
    IF s # <<>> /\ s[Len(s)] \in chars THEN RStripOf(Front(s), chars) ELSE s

RECURSIVE LStripOf(_, _)
LStripOf(s, chars) ==
    IF s # <<>> /\ s[1] \in chars THEN LStripOf(Tail(s), chars) ELSE s

(* str.strip() and str.rstrip('\n') *)
Strip(s) == LStripOf(RStripOf(s, Whitespace), Whitespace)
RStripNL(s) == RStripOf(s, {"\n"})

(* str(n) of an integer n *)
RECURSIVE NatStr(_)
NatStr(n) ==
    IF n < 10 THEN <<DigitChars[n + 1]>>
    ELSE NatStr(n \div 10) \o <<DigitChars[(n % 10) + 1]>>

IntStr(n) == IF n < 0 THEN <<"-">> \o NatStr(-n) ELSE NatStr(n)

IsDigits(s) == s # <<>> /\ \A i \in 1..Len(s) : s[i] \in Digits

RECURSIVE NatOf(_)
NatOf(s) == IF s = <<>> THEN 0 ELSE 10 * NatOf(Front(s)) + DigitVal(s[Len(s)])

RECURSIVE Pow10(_)
Pow10(k) == IF k = 0 THEN 1 ELSE 10 * Pow10(k - 1)

(* The sign and the unsigned rest of a stripped numeric literal. *)
Signed(s) == s # <<>> /\ s[1] \in {"-", "+"}
Unsign(s) == IF Signed(s) THEN Tail(s) ELSE s
SignOf(s) == IF s # <<>> /\ s[1] = "-" THEN -1 ELSE 1

(* int(text): surrounding whitespace, an optional sign, digits.  ok is    *)
(* FALSE where int() raises ValueError.                                    *)
IntParse(text) ==
    LET s == Strip(text) IN
    IF IsDigits(Unsign(s))
    THEN [ok |-> TRUE, v |-> SignOf(s) * NatOf(Unsign(s))]
    ELSE [ok |-> FALSE, v |-> 0]

(* float(text) and Decimal(text) on a decimal literal: digits with at most *)
(* one point, digits on at least one side of it.  The value is             *)
(* c / 10^k: the coefficient c and the number k of fractional digits.      *)
PointAt(s) == {i \in 1..Len(s) : s[i] = "."}

DecParse(text) ==
    LET s == Strip(text)
        u == Unsign(s)
    IN
    IF IsDigits(u)
    THEN [ok |-> TRUE, c |-> SignOf(s) * NatOf(u), k |-> 0]
    ELSE IF Cardinality(PointAt(u)) = 1
    THEN LET i == CHOOSE j \in PointAt(u) : TRUE
             whole == SubSeq(u, 1, i - 1)
             frac == SubSeq(u, i + 1, Len(u))
         IN
         IF /\ whole \o frac # <<>>
            /\ \A j \in 1..Len(whole \o frac) : (whole \o frac)[j] \in Digits
         THEN [ok |-> TRUE, c |-> SignOf(s) * NatOf(whole \o frac), k |-> Len(frac)]
         ELSE [ok |-> FALSE, c |-> 0, k |-> 0]
    ELSE [ok |-> FALSE, c |-> 0, k |-> 0]

----------------------------------------------------------------------------
(* Child processes. *)

(* The pids no child of this instance holds; h is a handle still held. *)
FreePids(alv, h) == {p \in Pids : p \notin alv /\ p # h}

FreshPid(alv, h) ==
    CHOOSE p \in FreePids(alv, h) : \A q \in FreePids(alv, h) : p <= q

(* What runs once close() is done or was not needed, by the caller k of    *)
(* close(): h is self._process then, alv the live children, evs the events *)
(* so far, o the call in progress.                                         *)
Continue(k, h, alv, evs, o) ==
    /\ count' = 0
    /\ slept' = 0
    /\ after' = "none"
    /\ op' = o
    /\ UNCHANGED <<hasTimeout, exit_hotkeys>>
    /\ CASE k = "close" ->
              \* close() returns to its caller
              /\ _process' = h
              /\ alive' = alv
              /\ dialog' = NoProc
              /\ events' = evs
              /\ pc' = "idle"
              /\ ret' = Returned("close", None)
         [] k = "_run_nonblocking" ->
              \* line 259: self._process = subprocess.Popen(args, ...)
              /\ FreePids(alv, _process) # {}
              /\ LET q == FreshPid(alv, _process) IN
                    /\ _process' = q
                    /\ alive' = alv \cup {q}
                    /\ events' = Append(evs, Ev("spawn", q))
              /\ dialog' = NoProc
              /\ pc' = "idle"
              /\ ret' = Returned(o.name, None)
         [] k = "_run_blocking" ->
              \* lines 216-238: subprocess.run(args, input=input, ...), or
              \* Popen and communicate(): the caller waits for the child
              /\ FreePids(alv, _process) # {}
              /\ LET q == FreshPid(alv, _process) IN
                    /\ dialog' = q
                    /\ alive' = alv \cup {q}
                    /\ events' = Append(evs, Ev("spawn", q))
              /\ _process' = h
              /\ pc' = "blocked"
              /\ ret' = Pending(o.name)
         [] k = "atexit" ->
              \* the exit handlers have run: the interpreter is gone
              /\ _process' = h
              /\ alive' = alv
              /\ dialog' = NoProc
              /\ events' = evs
              /\ pc' = "terminated"
              /\ ret' = ret

(* Variant of CloseSet: line 190, self._process = None, left out. *)
CloseSetKeepsHandle(k, alv, o) ==
    \E exits \in BOOLEAN :
        /\ (_process \notin alv) => exits
        /\ Continue(k, _process, alv \ {_process},
                    IF exits
                    THEN <<Ev("SIGINT", _process)>>
                    ELSE <<Ev("SIGINT", _process), Ev("SIGKILL", _process)>>,
                    o)

(* Variant of CloseSet: lines 173-174 left out, no SIGKILL after the wait. *)
CloseSetNoKill(k, alv, o) ==
    \E exits \in BOOLEAN :
        /\ (_process \notin alv) => exits
        /\ Continue(k, NoProc, IF exits THEN alv \ {_process} ELSE alv,
                    <<Ev("SIGINT", _process)>>, o)

(* close() with the handle set, lines 164-190, called by k.  With          *)
(* wait(timeout=1) the child either exits within the second or is sent     *)
(* SIGKILL, which ends it; a child that had exited before is waited for at *)
(* once.  Without TimeoutExpired the polling loop is entered.              *)
CloseSet(k, alv, o) ==
    IF hasTimeout
    THEN \E exits \in BOOLEAN :
            /\ (_process \notin alv) => exits
            /\ Continue(k, NoProc, alv \ {_process},
                        IF exits
                        THEN <<Ev("SIGINT", _process)>>
                        ELSE <<Ev("SIGINT", _process), Ev("SIGKILL", _process)>>,
                        o)
    ELSE /\ pc' = "close_poll"
         /\ after' = k
         /\ count' = 0
         /\ slept' = 0
         /\ op' = o
         /\ ret' = IF k = "atexit" THEN ret
                   ELSE Pending(IF k = "close" THEN "close" ELSE o.name)
         /\ events' = <<Ev("SIGINT", _process)>>
         /\ alive' = alv
         /\ dialog' = NoProc
         /\ UNCHANGED <<hasTimeout, exit_hotkeys, _process>>

(* close() as called by k: line 163 (and 212, 255), if self._process. *)
CloseThen(k, alv, o) ==
    IF _process # NoProc
    THEN CloseSet(k, alv, o)
    ELSE Continue(k, _process, alv, <<>>, o)

(* close()'s polling loop, lines 179-190: count is never incremented.      *)
(* The sleeps are counted up to one more than the loop is meant to make.   *)
PollLoop ==
    /\ pc = "close_poll"
    /\ last' = last
    /\ IF count < PollLimit
       THEN IF _process \notin alive
            THEN \* poll() is not None: break; line 186 finds it exited
                 Continue(after, NoProc, alive, events, op)
            ELSE \* time.sleep(0.01), and around again
                 /\ count' = count
                 /\ slept' = IF slept <= PollLimit THEN slept + 1 ELSE slept
                 /\ UNCHANGED <<hasTimeout, exit_hotkeys, _process, alive,
                                dialog, pc, after, op, ret, events>>
       ELSE \* the loop ran out: lines 186-190
            Continue(after, NoProc, alive \ {_process},
                     IF _process \in alive
                     THEN Append(events, Ev("SIGKILL", _process))
                     ELSE events,
                     op)

(* The status process exits: the user dismissed it, or it honoured SIGINT. *)
StatusExits ==
    /\ pc \in {"idle", "close_poll", "blocked"}
    /\ \E p \in alive :
          /\ p # dialog
          /\ alive' = alive \ {p}
    /\ UNCHANGED <<hasTimeout, exit_hotkeys, _process, dialog, pc, after,
                   count, slept, op, ret, events, last>>

(* _run_blocking() and _run_nonblocking(), lines 211-238 and 254-259, with *)
(* alv the children alive when they are entered.                           *)
_run_blocking(alv, o) == CloseThen("_run_blocking", alv, o)

(* Variant of _run_nonblocking: lines 255-256 left out. *)
_run_nonblocking_noclose(alv, o) ==
    Continue("_run_nonblocking", _process, alv, <<>>, o)

_run_nonblocking(alv, o) == CloseThen("_run_nonblocking", alv, o)

(* The dialog being waited for exits: what every blocking call does first. *)
DialogGone ==
    /\ alive' = alive \ {dialog}
    /\ dialog' = NoProc
    /\ UNCHANGED <<hasTimeout, exit_hotkeys, _process, after, count, slept>>

(* A call ends without spawning anything. *)
EndCall(o, r, next) ==
    /\ op' = o
    /\ ret' = r
    /\ pc' = next

----------------------------------------------------------------------------
(* The calls. *)

Messages == {"", "m"}
(* Return codes of the external program: killed by a signal, confirm,      *)
(* cancel, codes rofi does not document, and custom keys 1, 2 and 10 up.   *)
RetCodes == {-2, 0, 1, 2, 9, 10, 11} \cup 19..MaxCode

NoRun == [rc |-> 0, out |-> <<>>, called |-> FALSE, text |-> <<>>,
          value |-> None, error |-> NoError]

Call(name) == [NoOp EXCEPT !.name = name]

close ==
    /\ pc = "idle"
    /\ last' = NoRun
    /\ CloseThen("close", alive, Call("close"))

status ==
    /\ pc = "idle"
    /\ last' = NoRun
    /\ \E message \in Messages :
          _run_nonblocking(alive, [Call("status") EXCEPT !.message = message])

error ==
    /\ pc = "idle"
    /\ last' = NoRun
    /\ \E message \in Messages :
          _run_blocking(alive, [Call("error") EXCEPT !.message = message])

(* exit_with_error(), lines 851-852: self.error(error), then SystemExit. *)
exit_with_error ==
    /\ pc = "idle"
    /\ last' = NoRun
    /\ _run_blocking(alive, [Call("exit_with_error") EXCEPT !.message = "m"])

(* The dialog of error() exits: error() returns, exit_with_error() raises. *)
ErrorExits ==
    /\ pc = "blocked"
    /\ op.name \in {"error", "exit_with_error"}
    /\ \E rc \in RetCodes :
          last' = [NoRun EXCEPT !.rc = rc]
    /\ DialogGone
    /\ events' = events
    /\ IF op.name = "error"
       THEN EndCall(op, Returned("error", None), "idle")
       ELSE EndCall(op, Raised("exit_with_error", "SystemExit"), "exiting")

(* A call that ends before it reaches _run_blocking(). *)
NothingRun ==
    UNCHANGED <<hasTimeout, exit_hotkeys, _process, alive, dialog, after,
                count, slept, events>>

----------------------------------------------------------------------------
(* select(), lines 388-462. *)

UserKeyNums == {10, 11}

(* Variant of SkipUsed: lines 422-423 left out. *)
SkipUsedNever(next_key, user_keys) == next_key

(* lines 422-423: while next_key in user_keys: next_key += 1 *)
RECURSIVE SkipUsed(_, _)
SkipUsed(next_key, user_keys) ==
    IF next_key \in user_keys THEN SkipUsed(next_key + 1, user_keys) ELSE next_key

(* lines 419-426: the slot given to each exit hotkey, in order *)
RECURSIVE ExitSlots(_, _, _)
ExitSlots(hotkeys, next_key, user_keys) ==
    IF hotkeys = <<>> THEN <<>>
    ELSE LET slot == SkipUsed(next_key, user_keys) IN
         <<slot>> \o ExitSlots(Tail(hotkeys), slot + 1, user_keys)

SeqRange(q) == {q[i] : i \in 1..Len(q)}

select ==
    /\ pc = "idle"
    /\ last' = NoRun
    /\ \E n \in 0..MaxOpts, user_keys \in SUBSET UserKeyNums :
          _run_blocking(alive,
              [Call("select") EXCEPT
                  !.n = n,
                  !.user_keys = user_keys,
                  !.exit_keys =
                      SeqRange(ExitSlots(exit_hotkeys, FirstExitSlot, user_keys))])

(* What rofi -dmenu -format i writes: nothing, or the index of a row (-1   *)
(* for text that is no row) and a newline.                                 *)
SelectStdouts(n) == {<<>>} \cup {IntStr(i) \o <<"\n">> : i \in (-1)..(n - 1)}

(* Variant of KeyOfCode: off by one. *)
KeyOfCodeMinusTen(returncode) == returncode - 10

(* line 455: the key of a return code above 9 *)

KeyOfCode(returncode) == returncode - KeyOffset

(* lines 446-462: the result of select() from the dialog's outcome *)
SelectResult(o, returncode, out) ==
    LET stdout == Strip(out)
        index == IF stdout # <<>> THEN IntParse(stdout) ELSE [ok |-> TRUE, v |-> -1]
    IN
    IF ~index.ok THEN Raised("select", "ValueError")
    ELSE IF returncode = 0 THEN Returned("select", Pair(index.v, 0))
    ELSE IF returncode = 1 THEN Returned("select", Pair(index.v, -1))
    ELSE IF returncode > KeyOffset
    THEN IF KeyOfCode(returncode) \in o.exit_keys
         THEN Raised("select", "SystemExit")
         ELSE Returned("select", Pair(index.v, KeyOfCode(returncode)))
    ELSE \* line 459: results is not defined, so formatting the message raises
         Raised("select", "NameError")

SelectExits ==
    /\ pc = "blocked"
    /\ op.name = "select"
    /\ DialogGone
    /\ events' = events
    /\ \E returncode \in RetCodes, out \in SelectStdouts(op.n) :
          /\ last' = [NoRun EXCEPT !.rc = returncode, !.out = out]
          /\ LET r == SelectResult(op, returncode, out) IN
             EndCall(op, r, IF r.exc = "SystemExit" THEN "exiting" ELSE "idle")

----------------------------------------------------------------------------
(* generic_entry(), lines 500-535, and the typed entries. *)

(* The parts of a dialog's message. *)
Tok(tag, txt, err) == [tag |-> tag, txt |-> txt, err |-> err]
Text(m) == Tok("text", m, NoError)
Newline == Tok("newline", "", NoError)
(* '<span color="#FF0000" font_weight="bold">{0:s}</span>' of an error *)
Span(err) == Tok("span", "", err)

(* Python's truth of an error: None and "" are false. *)
Truthy(err) == err.fmt \notin {"None", ""}

(* Variant of EntryMsg: lines 509-511 left out. *)
EntryMsgNoError(message, err) == IF message = "" THEN <<>> ELSE <<Text(message)>>

(* lines 508-511: the message of one run of the dialog *)

EntryMsg(message, err) ==
    LET msg == IF message = "" THEN <<>> ELSE <<Text(message)>> IN
    IF Truthy(err)
    THEN RStripOf(<<Span(err), Newline>> \o msg, {Newline})
    ELSE msg

(* lines 500-522: the first run of the loop *)
generic_entry(name, validator, min, max, message) ==
    /\ last' = NoRun
    /\ _run_blocking(alive,
          [Call(name) EXCEPT
              !.validator = validator, !.min = min, !.max = max,
              !.message = message,
              !.error = Err("", 0),
              !.mesg = EntryMsg(message, Err("", 0))])

(* Variant of BadLimits: equal limits accepted. *)
BadLimitsOnlyBelow(min, max) == min.set /\ max.set /\ max.v < min.v

(* lines 591, 632, 673: the sanity check of the limits *)

BadLimits(min, max) == min.set /\ max.set /\ ~(max.v > min.v)

Limits == {Unset} \cup {Limit(n) : n \in 0..MaxLimit}

Result(value, err) == [value |-> value, error |-> err]

FloatVal(c, k) == [t |-> "float", i |-> c, k |-> k, s |-> <<>>]
DecimalVal(c, k) == [t |-> "Decimal", i |-> c, k |-> k, s |-> <<>>]

(* lines 594-609 *)
integer_validator(text, min, max) ==
    LET value == IntParse(text) IN
    IF ~value.ok THEN Result(None, Err("Please enter an integer value.", 0))
    ELSE IF min.set /\ value.v < min.v
    THEN Result(None, Err("The minimum allowable value is {0:d}.", min.v))
    ELSE IF max.set /\ value.v > max.v
    THEN Result(None, Err("The maximum allowable value is {0:d}.", max.v))
    ELSE Result(IntVal(value.v), NoError)

(* lines 635-650 *)
float_validator(text, min, max) ==
    LET value == DecParse(text) IN
    IF ~value.ok THEN Result(None, Err("Please enter a floating point value.", 0))
    ELSE IF min.set /\ value.c < min.v * Pow10(value.k)
    THEN Result(None, Err("The minimum allowable value is {0}.", min.v))
    ELSE IF max.set /\ value.c > max.v * Pow10(value.k)
    THEN Result(None, Err("The maximum allowable value is {0}.", max.v))
    ELSE Result(FloatVal(value.c, value.k), NoError)

(* lines 676-691 *)
decimal_validator(text, min, max) ==
    LET value == DecParse(text) IN
    IF ~value.ok THEN Result(None, Err("Please enter a decimal value.", 0))
    ELSE IF min.set /\ value.c < min.v * Pow10(value.k)
    THEN Result(None, Err("The minimum allowable value is {0}.", min.v))
    ELSE IF max.set /\ value.c > max.v * Pow10(value.k)
    THEN Result(None, Err("The maximum allowable value is {0}.", max.v))
    ELSE Result(DecimalVal(value.c, value.k), NoError)

(* What a validator of the caller may answer: a value and no error, no     *)
(* value and an error, and the mixed answers the loop must also decide.    *)
CustomResults(text) ==
    {Result(StrVal(text), NoError),
     Result(StrVal(text), Err("", 0)),
     Result(None, NoError),
     Result(None, Err("Too short", 0)),
     Result(StrVal(text), Err("Not allowed", 0))}

(* line 531: validator(text) *)
Validate(o, text) ==
    CASE o.validator = "integer" -> {integer_validator(text, o.min, o.max)}
      [] o.validator = "float" -> {float_validator(text, o.min, o.max)}
      [] o.validator = "decimal" -> {decimal_validator(text, o.min, o.max)}
      [] o.validator = "custom" -> CustomResults(text)

generic_entry_call ==
    /\ pc = "idle"
    /\ \E validator \in {"none", "custom"}, message \in Messages :
          generic_entry("generic_entry", validator, Unset, Unset, message)

integer_entry ==
    /\ pc = "idle"
    /\ \E min \in Limits, max \in Limits, message \in Messages :
          IF BadLimits(min, max)
          THEN /\ last' = NoRun
               /\ NothingRun
               /\ EndCall([Call("integer_entry") EXCEPT !.min = min, !.max = max],
                          Raised("integer_entry", "ValueError"), "idle")
          ELSE generic_entry("integer_entry", "integer", min, max, message)

(* line 652 passes stdin_str twice: generic_entry() takes at most five     *)
(* positional arguments and is given six, a TypeError before it runs.      *)
float_entry ==
    /\ pc = "idle"
    /\ \E min \in Limits, max \in Limits :
          /\ last' = NoRun
          /\ NothingRun
          /\ EndCall([Call("float_entry") EXCEPT !.min = min, !.max = max],
                     Raised("float_entry",
                            IF BadLimits(min, max) THEN "ValueError" ELSE "TypeError"),
                     "idle")

decimal_entry ==
    /\ pc = "idle"
    /\ \E min \in Limits, max \in Limits, message \in Messages :
          IF BadLimits(min, max)
          THEN /\ last' = NoRun
               /\ NothingRun
               /\ EndCall([Call("decimal_entry") EXCEPT !.min = min, !.max = max],
                          Raised("decimal_entry", "ValueError"), "idle")
          ELSE generic_entry("decimal_entry", "decimal", min, max, message)

EntryNames == {"generic_entry", "integer_entry", "float_entry", "decimal_entry"}

(* The text the user may enter, and what rofi -dmenu -format s writes:     *)
(* nothing, or the text and a newline.                                     *)
EntryTexts ==
    {<<>>, <<"a", "b", "c">>, <<" ", "1">>, <<"1", ".", "5">>, <<"-", ".", "5">>}
        \cup {IntStr(v) : v \in (-1)..(MaxLimit + 1)}

EntryStdouts == {<<>>} \cup {text \o <<"\n">> : text \in EntryTexts}

EntryCodes == {-2, 0, 1, MaxCode}

(* Variant of EntryStep: lines 525-526 left out. *)
EntryStepNoCancel(o, returncode, text, vr) ==
    IF o.validator = "none"
    THEN [done |-> TRUE, called |-> FALSE, value |-> StrVal(text)]
    ELSE [done |-> ~Truthy(vr.error), called |-> TRUE, value |-> vr.value]

(* lines 524-535: what one run of the dialog leads to.  vr is the answer   *)
(* of the validator, which is called only where called is TRUE.            *)
EntryStep(o, returncode, text, vr) ==
    IF returncode = 1
    THEN [done |-> TRUE, called |-> FALSE, value |-> None]
    ELSE IF o.validator = "none"
    THEN [done |-> TRUE, called |-> FALSE, value |-> StrVal(text)]
    ELSE [done |-> ~Truthy(vr.error), called |-> TRUE, value |-> vr.value]

(* The dialog of an entry exits: the rest of the loop's body, and either   *)
(* the return or the next run.                                             *)
EntryExits ==
    /\ pc = "blocked"
    /\ op.name \in EntryNames
    /\ \E returncode \in EntryCodes, out \in EntryStdouts :
       LET text == RStripNL(out) IN
       \E vr \in (IF op.validator = "none" THEN {Result(None, NoError)}
                  ELSE Validate(op, text)) :
       LET step == EntryStep(op, returncode, text, vr) IN
          /\ last' = IF step.called
                     THEN [rc |-> returncode, out |-> out, called |-> TRUE,
                           text |-> text, value |-> vr.value, error |-> vr.error]
                     ELSE [NoRun EXCEPT !.rc = returncode, !.out = out]
          /\ IF step.done
             THEN /\ DialogGone
                  /\ events' = events
                  /\ EndCall(op, Returned(op.name, step.value), "idle")
             ELSE _run_blocking(alive \ {dialog},
                     [op EXCEPT !.error = vr.error,
                                !.mesg = EntryMsg(op.message, vr.error)])

----------------------------------------------------------------------------
(* The caller is done: the interpreter exits normally, and runs the        *)
(* handler registered by line 125, atexit.register(self.close).            *)
Exit ==
    /\ pc = "idle"
    /\ pc' = "exiting"
    /\ op' = NoOp
    /\ ret' = NoCall
    /\ last' = NoRun
    /\ UNCHANGED <<hasTimeout, exit_hotkeys, _process, alive, dialog, after,
                   count, slept, events>>

(* Variant of AtExit: line 125, atexit.register(self.close), left out. *)
AtExitNoClose ==
    /\ pc = "exiting"
    /\ pc' = "terminated"
    /\ UNCHANGED <<hasTimeout, exit_hotkeys, _process, alive, dialog, after,
                   count, slept, op, ret, events, last>>

AtExit ==
    /\ pc = "exiting"
    /\ last' = last
    /\ CloseThen("atexit", alive, op)

----------------------------------------------------------------------------

(* The exit hotkeys an instance is given: none, or the default of line 76. *)
HotkeyTuples == {<<>>, <<"Alt+F4", "Control+q">>}

Init ==
    /\ hasTimeout \in BOOLEAN
    /\ exit_hotkeys \in HotkeyTuples
    /\ _process = NoProc
    /\ alive = {}
    /\ dialog = NoProc
    /\ pc = "idle"
    /\ after = "none"
    /\ count = 0
    /\ slept = 0
    /\ op = NoOp
    /\ ret = NoCall
    /\ events = <<>>
    /\ last = NoRun

Next ==
    \/ close
    \/ status
    \/ error
    \/ exit_with_error
    \/ ErrorExits
    \/ select
    \/ SelectExits
    \/ generic_entry_call
    \/ integer_entry
    \/ float_entry
    \/ decimal_entry
    \/ EntryExits
    \/ PollLoop
    \/ StatusExits
    \/ Exit
    \/ AtExit

Spec == Init /\ [][Next]_vars

----------------------------------------------------------------------------
(* Command lines: _common_args(), lines 262-292, and the argument lists    *)
(* that error(), status(), select() and generic_entry() hand to rofi.      *)

(* More values: a boolean, and the (key, action) pair of a key binding. *)
BoolVal(b) == [t |-> "bool", i |-> IF b THEN 1 ELSE 0, k |-> 0, s |-> <<>>]
Binding(key, action) == [t |-> "tuple", i |-> 0, k |-> 0, s |-> <<key, action>>]

(* Python's truth of a layout value: None, 0 and False are false. *)
Truth(v) == v.t \in {"int", "bool"} /\ v.i # 0

(* An argument of a command line: literal text and what is formatted or    *)
(* appended after it, piece by piece.                                      *)
Arg(lit, sfx) == [lit |-> lit, sfx |-> sfx]
Word(lit) == Arg(lit, <<>>)
(* str(v) of an integer value *)
StrOf(v) == Arg("", IntStr(v.i))

(* rofi_args of a call: None, or a list of arguments. *)
NoArgs == [set |-> FALSE, v |-> <<>>]
SomeArgs(v) == [set |-> TRUE, v |-> v]
(* rofi_args or [] *)
OrEmpty(rofi_args) == IF rofi_args.set THEN rofi_args.v ELSE <<>>

(* **kwargs: the keyword arguments of a call, in the order given; a name   *)
(* is the sequence of its characters.                                      *)
Kw(k, v) == [k |-> k, v |-> v]
Has(kwargs, key) == \E i \in 1..Len(kwargs) : kwargs[i].k = key
(* kwargs.get(key, default) *)
Get(kwargs, key, default) ==
    IF Has(kwargs, key)
    THEN kwargs[CHOOSE i \in 1..Len(kwargs) : kwargs[i].k = key].v
    ELSE default

K_lines == <<"l", "i", "n", "e", "s">>
K_fixed_lines == <<"f", "i", "x", "e", "d", "_", "l", "i", "n", "e", "s">>
K_width == <<"w", "i", "d", "t", "h">>
K_fullscreen == <<"f", "u", "l", "l", "s", "c", "r", "e", "e", "n">>
K_location == <<"l", "o", "c", "a", "t", "i", "o", "n">>

(* Variant of _common_args: allow_fullscreen not looked at. *)
_common_args_any(self, allow_fullscreen, kwargs) ==
    LET lines == Get(kwargs, K_lines, self.lines)
        fixed_lines == Get(kwargs, K_fixed_lines, self.fixed_lines)
        width == Get(kwargs, K_width, self.width)
        fullscreen == Get(kwargs, K_fullscreen, self.fullscreen)
        location == Get(kwargs, K_location, self.location)
    IN
    (IF Truth(lines) THEN <<Word("-lines"), StrOf(lines)>> ELSE <<>>)
    \o (IF Truth(fixed_lines)
        THEN <<Word("-fixed-num-lines"), StrOf(fixed_lines)>> ELSE <<>>)
    \o (IF width # None THEN <<Word("-width"), StrOf(width)>> ELSE <<>>)
    \o (IF Truth(fullscreen) THEN <<Word("-fullscreen")>> ELSE <<>>)
    \o (IF location # None THEN <<Word("-location"), StrOf(location)>> ELSE <<>>)
    \o self.rofi_args

(* _common_args(self, allow_fullscreen=True, **kwargs), lines 262-292 *)
_common_args(self, allow_fullscreen, kwargs) ==
    LET lines == Get(kwargs, K_lines, self.lines)
        fixed_lines == Get(kwargs, K_fixed_lines, self.fixed_lines)
        width == Get(kwargs, K_width, self.width)
        fullscreen == Get(kwargs, K_fullscreen, self.fullscreen)
        location == Get(kwargs, K_location, self.location)
    IN
    (IF Truth(lines) THEN <<Word("-lines"), StrOf(lines)>> ELSE <<>>)
    \o (IF Truth(fixed_lines)
        THEN <<Word("-fixed-num-lines"), StrOf(fixed_lines)>> ELSE <<>>)
    \o (IF width # None THEN <<Word("-width"), StrOf(width)>> ELSE <<>>)
    \o (IF allow_fullscreen /\ Truth(fullscreen)
        THEN <<Word("-fullscreen")>> ELSE <<>>)
    \o (IF location # None THEN <<Word("-location"), StrOf(location)>> ELSE <<>>)
    \o self.rofi_args

(* error(), lines 309-313 *)
error_args(self, message, rofi_args, kwargs) ==
    <<Word("rofi"), Word("-e"), Word(message)>>
    \o _common_args(self, FALSE, kwargs)
    \o OrEmpty(rofi_args)

(* status(), lines 337-341 *)
status_args(self, message, rofi_args, kwargs) ==
    <<Word("rofi"), Word("-e"), Word(message)>>
    \o _common_args(self, FALSE, kwargs)
    \o OrEmpty(rofi_args)

(* generic_entry(), lines 505-519: the command line of one run, err the    *)
(* text of the validator's error, "" on the first run.                     *)
generic_entry_args(self, prompt, message, err, rofi_args, kwargs) ==
    LET msg == IF err # ""
               THEN <<Arg("<span color=\"#FF0000\" font_weight=\"bold\">",
                          <<err, "</span>">>
                              \o (IF message = "" THEN <<>> ELSE <<"\n", message>>))>>
               ELSE IF message = "" THEN <<>> ELSE <<Word(message)>>
    IN
    <<Word("rofi"), Word("-dmenu"), Word("-p"), Word(prompt),
      Word("-format"), Word("s")>>
    \o (IF msg # <<>> THEN <<Word("-mesg")>> \o msg ELSE <<>>)
    \o _common_args(self, TRUE, kwargs)
    \o OrEmpty(rofi_args)

(* select(), lines 400-416: the keyword arguments that are key bindings:   *)
(* k.startswith('key'), and int(k[3:]) does not raise ValueError.          *)
StartsWithKey(k) == Len(k) >= 3 /\ SubSeq(k, 1, 3) = <<"k", "e", "y">>
AfterKey(k) == SubSeq(k, 4, Len(k))
IsBinding(kw) == StartsWithKey(kw.k) /\ IntParse(AfterKey(kw.k)).ok
Bindings(kwargs) == SelectSeq(kwargs, IsBinding)

(* line 412: user_keys.add(keynum) *)
UserKeys(kwargs) ==
    {IntParse(AfterKey(Bindings(kwargs)[i].k)).v : i \in 1..Len(Bindings(kwargs))}

(* line 413: args.extend(['-kb-custom-{0:s}'.format(k[3:]), key]) *)
RECURSIVE UserKeyArgs(_)
UserKeyArgs(bindings) ==
    IF bindings = <<>> THEN <<>>
    ELSE <<Arg("-kb-custom-", AfterKey(bindings[1].k)), Word(bindings[1].v.s[1])>>
         \o UserKeyArgs(Tail(bindings))

(* lines 414-415 and 431: the bindings that have an action, each as        *)
(* "<b>{0:s}</b>: {1:s}", joined by two spaces                             *)
RECURSIVE DisplayBindings(_)
DisplayBindings(bindings) ==
    IF bindings = <<>> THEN <<>>
    ELSE LET key == bindings[1].v.s[1]
             action == bindings[1].v.s[2]
             rest == DisplayBindings(Tail(bindings))
         IN
         IF action = "" THEN rest
         ELSE <<"<b>", key, "</b>: ", action>>
              \o (IF rest = <<>> THEN <<>> ELSE <<"  ">> \o rest)

(* line 425: args.extend(['-kb-custom-{0:d}'.format(next_key), key]) *)
RECURSIVE ExitKeyArgs(_, _)
ExitKeyArgs(hotkeys, slots) ==
    IF hotkeys = <<>> THEN <<>>
    ELSE <<Arg("-kb-custom-", IntStr(slots[1])), Word(hotkeys[1])>>
         \o ExitKeyArgs(Tail(hotkeys), Tail(slots))

(* select(), lines 388-440: the command line.  The message, the keys and   *)
(* the actions carry no whitespace at their ends for strip() to take.      *)
select_args(self, hotkeys, prompt, message, sel, rofi_args, kwargs) ==
    LET display_bindings == DisplayBindings(Bindings(kwargs))
        mesg == IF display_bindings = <<>>
                THEN IF message = "" THEN <<>> ELSE <<Word(message)>>
                ELSE IF message = ""
                THEN <<Arg(display_bindings[1], Tail(display_bindings))>>
                ELSE <<Arg(message, <<"\n">> \o display_bindings)>>
    IN
    <<Word("rofi"), Word("-dmenu"), Word("-p"), Word(prompt),
      Word("-format"), Word("i")>>
    \o (IF sel # None THEN <<Word("-selected-row"), StrOf(sel)>> ELSE <<>>)
    \o UserKeyArgs(Bindings(kwargs))
    \o ExitKeyArgs(hotkeys, ExitSlots(hotkeys, FirstExitSlot, UserKeys(kwargs)))
    \o (IF mesg # <<>> THEN <<Word("-mesg")>> \o mesg ELSE <<>>)
    \o _common_args(self, TRUE, kwargs)
    \o OrEmpty(rofi_args)

----------------------------------------------------------------------------
(* The layout options: an instance with its defaults, and one dialog made  *)
(* with keyword arguments that override them.                              *)

(* The instance's defaults of lines 114-121, each None or a value. *)
SelfLayouts ==
    [lines : {None, IntVal(0), IntVal(2)},
     fixed_lines : {None, IntVal(0), IntVal(2)},
     width : {None, IntVal(50)},
     fullscreen : {None, BoolVal(FALSE), BoolVal(TRUE)},
     location : {None, IntVal(0)},
     rofi_args : {<<>>, <<Word("-no-config")>>}]

(* A keyword argument left out, or given with one of the values. *)
KwChoices(key, values) == {<<>>} \cup {<<Kw(key, v)>> : v \in values}

LayoutKwargs ==
    {a \o b \o c \o d \o e :
        a \in KwChoices(K_lines, {None, IntVal(0), IntVal(3)}),
        b \in KwChoices(K_fixed_lines, {IntVal(0), IntVal(3)}),
        c \in KwChoices(K_width, {None, IntVal(0)}),
        d \in KwChoices(K_fullscreen, {BoolVal(FALSE), BoolVal(TRUE)}),
        e \in KwChoices(K_location, {IntVal(1)})}

(* A dialog call on an instance: the call, and the command line built. *)
Made(self, name, message, rofi_args, kwargs) ==
    [name |-> name, self |-> self, message |-> message,
     rofi_args |-> rofi_args, kwargs |-> kwargs]

Built(args) == [args |-> args]

(* The variables of the processes, which building a command line leaves. *)
procVars == <<hasTimeout, exit_hotkeys, _process, alive, dialog, pc, after,
              count, slept, events, last>>

NoProcesses ==
    /\ hasTimeout = TRUE
    /\ _process = NoProc
    /\ alive = {}
    /\ dialog = NoProc
    /\ pc = "idle"
    /\ after = "none"
    /\ count = 0
    /\ slept = 0
    /\ events = <<>>
    /\ last = NoRun

LayoutInit ==
    /\ NoProcesses
    /\ exit_hotkeys = <<"Alt+F4", "Control+q">>
    /\ \E self \in SelfLayouts : op = Made(self, "__init__", "", NoArgs, <<>>)
    /\ ret = Built(<<>>)

ErrorArgs ==
    /\ op.name = "__init__"
    /\ \E kwargs \in LayoutKwargs :
          /\ op' = Made(op.self, "error", "m", NoArgs, kwargs)
          /\ ret' = Built(error_args(op.self, "m", NoArgs, kwargs))
    /\ UNCHANGED procVars

StatusArgs ==
    /\ op.name = "__init__"
    /\ \E kwargs \in LayoutKwargs :
          /\ op' = Made(op.self, "status", "m", NoArgs, kwargs)
          /\ ret' = Built(status_args(op.self, "m", NoArgs, kwargs))
    /\ UNCHANGED procVars

EntryArgs ==
    /\ op.name = "__init__"
    /\ \E kwargs \in LayoutKwargs :
          /\ op' = Made(op.self, "generic_entry", "m", NoArgs, kwargs)
          /\ ret' = Built(generic_entry_args(op.self, "p", "m", "", NoArgs, kwargs))
    /\ UNCHANGED procVars

SelectArgs ==
    /\ op.name = "__init__"
    /\ \E kwargs \in LayoutKwargs :
          /\ op' = Made(op.self, "select", "m", NoArgs, kwargs)
          /\ ret' = Built(select_args(op.self, exit_hotkeys, "p", "m", None,
                                      NoArgs, kwargs))
    /\ UNCHANGED procVars

LayoutNext ==
    \/ ErrorArgs
    \/ StatusArgs
    \/ EntryArgs
    \/ SelectArgs

LayoutSpec == LayoutInit /\ [][LayoutNext]_vars

----------------------------------------------------------------------------
(* The key bindings of select(): an instance with its exit hotkeys, and    *)
(* one select() with custom bindings among its keyword arguments.          *)

MaxKeys == 2          \* select(): at most this many keyN keyword arguments
MaxHotkeys == 2       \* __init__(): at most this many exit hotkeys

(* The sequences over S of length at most n. *)
SeqsUpTo(S, n) == UNION {[1..k -> S] : k \in 0..n}

ExitHotkeyTuples == SeqsUpTo({"Alt+F4", "Control+q"}, MaxHotkeys)

(* Names of keyword arguments that start with 'key': four numbered ones,   *)
(* two of them the same number, and one that is no number.                 *)
KeyNames ==
    {<<"k", "e", "y", "1">>, <<"k", "e", "y", "1", "0">>,
     <<"k", "e", "y", "0", "1", "0">>, <<"k", "e", "y", "1", "1">>,
     <<"k", "e", "y", "x">>}

KeyKwargs ==
    {[i \in 1..Len(names) |-> Kw(names[i], Binding("Alt+1", action))] :
        names \in {q \in SeqsUpTo(KeyNames, MaxKeys) :
                      \A i, j \in 1..Len(q) : q[i] = q[j] => i = j},
        action \in {"", "Run"}}

DefaultLayout ==
    [lines |-> None, fixed_lines |-> None, width |-> None, fullscreen |-> None,
     location |-> None, rofi_args |-> <<>>]

KeysInit ==
    /\ NoProcesses
    /\ exit_hotkeys \in ExitHotkeyTuples
    /\ op = Made(DefaultLayout, "__init__", "", NoArgs, <<>>)
    /\ ret = Built(<<>>)

SelectKeys ==
    /\ op.name = "__init__"
    /\ \E kwargs \in KeyKwargs, message \in Messages,
          rofi_args \in {NoArgs, SomeArgs(<<Word("-i")>>)} :
          /\ op' = Made(op.self, "select", message, rofi_args, kwargs)
          /\ ret' = Built(select_args(op.self, exit_hotkeys, "p", message, None,
                                      rofi_args, kwargs))
    /\ UNCHANGED procVars

KeysNext == SelectKeys

KeysSpec == KeysInit /\ [][KeysNext]_vars

----------------------------------------------------------------------------
(* escape(), lines 128-153: a string is the sequence of its characters.    *)

MaxText == 4          \* escape(): strings of at most this many characters

(* str.translate(table): every character the table has is replaced by the  *)
(* table's text for it, every other character is kept.                     *)
RECURSIVE Translate(_, _)
Translate(string, table) ==
    IF string = <<>> THEN <<>>
    ELSE (IF string[1] \in DOMAIN table THEN table[string[1]] ELSE <<string[1]>>)
         \o Translate(Tail(string), table)

(* {38: '&amp;'} *)
AmpTable == "&" :> <<"&", "a", "m", "p", ";">>

(* {34: '&quot;', 39: '&apos;', 60: '&lt;', 62: '&gt;'} *)
EntityTable ==
    "\"" :> <<"&", "q", "u", "o", "t", ";">>
    @@ "'" :> <<"&", "a", "p", "o", "s", ";">>
    @@ "<" :> <<"&", "l", "t", ";">>
    @@ ">" :> <<"&", "g", "t", ";">>

(* Variant of escape: the ampersands translated last. *)
escape_amp_last(string) == Translate(Translate(string, EntityTable), AmpTable)

(* lines 148-153 *)
escape(string) == Translate(Translate(string, AmpTable), EntityTable)

(* The characters of the strings escaped: the five that are replaced, and  *)
(* letters and a semicolon, with which a string can hold an entity.        *)
EscapeChars == {"&", "<", ">", "\"", "'", "l", "t", ";"}

Escaped(done, value) == [done |-> done, value |-> value]

EscapeInit ==
    /\ NoProcesses
    /\ exit_hotkeys = <<>>
    /\ \E string \in SeqsUpTo(EscapeChars, MaxText) :
          op = [name |-> "escape", string |-> string]
    /\ ret = Escaped(FALSE, <<>>)

Escape ==
    /\ ~ret.done
    /\ ret' = Escaped(TRUE, escape(op.string))
    /\ op' = op
    /\ UNCHANGED procVars

EscapeNext == Escape

EscapeSpec == EscapeInit /\ [][EscapeNext]_vars

----------------------------------------------------------------------------
(* The typed entries as callers of generic_entry(): what each hands over,  *)
(* and the dialogs generic_entry() then shows.                             *)

MaxRuns == 2          \* generic_entry(): at most this many runs of the dialog

(* def generic_entry(self, prompt, validator=None, message=None,           *)
(*                   rofi_args=None, stdin_str="", **kwargs), line 465     *)
GenericParams == <<"prompt", "validator", "message", "rofi_args", "stdin_str">>

GenericDefaults ==
    [prompt |-> "", validator |-> "None", message |-> "", rofi_args |-> NoArgs,
     stdin_str |-> ""]

(* A call of generic_entry() with positional and keyword arguments: the    *)
(* parameters are bound in order, then by name, then by default; too many  *)
(* positional arguments, or a name bound twice, raise TypeError.           *)
CallGeneric(positional, keywords) ==
    IF \/ Len(positional) > Len(GenericParams)
       \/ \E i \in 1..Len(positional) : GenericParams[i] \in DOMAIN keywords
    THEN [exc |-> "TypeError", params |-> GenericDefaults]
    ELSE [exc |-> "",
          params |->
              [p \in {GenericParams[i] : i \in 1..Len(GenericParams)} |->
                  IF \E i \in 1..Len(positional) : GenericParams[i] = p
                  THEN positional[CHOOSE i \in 1..Len(positional) : GenericParams[i] = p]
                  ELSE IF p \in DOMAIN keywords THEN keywords[p]
                  ELSE GenericDefaults[p]]]

AllEntryNames ==
    {"text_entry", "integer_entry", "float_entry", "decimal_entry",
     "date_entry", "time_entry", "datetime_entry"}

(* The return statement of each typed entry: lines 570, 611, 652, 693,     *)
(* 741, 789 and 837.                                                       *)
TypedCall(name, a) ==
    CASE name = "text_entry" ->
            CallGeneric(<<a.prompt, "text_validator", a.message, a.rofi_args,
                          a.stdin_str>>, <<>>)
      [] name = "integer_entry" ->
            CallGeneric(<<a.prompt, "integer_validator", a.message, a.rofi_args,
                          a.stdin_str>>, <<>>)
      [] name = "float_entry" ->
            CallGeneric(<<a.prompt, "float_validator", a.message, a.rofi_args,
                          a.stdin_str, a.stdin_str>>, <<>>)
      [] name = "decimal_entry" ->
            CallGeneric(<<a.prompt, "decimal_validator", a.message, a.rofi_args,
                          a.stdin_str>>, <<>>)
      [] name = "date_entry" ->
            CallGeneric(<<a.prompt, "date_validator", a.message, a.rofi_args,
                          a.stdin_str>>, <<>>)
      [] name = "time_entry" ->
            CallGeneric(<<a.prompt, "time_validator", a.message>>,
                        [rofi_args |-> NoArgs, stdin_str |-> a.stdin_str])
      [] name = "datetime_entry" ->
            CallGeneric(<<a.prompt, "datetime_validator", a.message, a.rofi_args,
                          a.stdin_str>>, <<>>)

(* A typed entry called with its arguments: limits unset, show_example     *)
(* false.                                                                  *)
Typed(self, name, prompt, message, rofi_args, stdin_str, kwargs) ==
    [name |-> name, self |-> self, prompt |-> prompt, message |-> message,
     rofi_args |-> rofi_args, stdin_str |-> stdin_str, kwargs |-> kwargs]

(* Where generic_entry() stands: the parameters it was given, how many     *)
(* dialogs it has run, the command line and the input of the latest, and   *)
(* how the call ended.                                                     *)
Loop(exc, params, runs, args, input, outcome, by) ==
    [exc |-> exc, call |-> params, runs |-> runs, args |-> args,
     input |-> input, outcome |-> outcome, by |-> by]

WrapInit ==
    /\ NoProcesses
    /\ exit_hotkeys = <<>>
    /\ \E rofi_args \in {<<>>, <<Word("-no-config")>>} :
          op = Typed([DefaultLayout EXCEPT !.rofi_args = rofi_args],
                     "__init__", "", "", NoArgs, "", <<>>)
    /\ ret = Loop("", GenericDefaults, 0, <<>>, "", "none", "")

(* lines 500-522: one run of the dialog, shown with the error err *)
RunDialog(call, err, runs, kwargs) ==
    Loop("", call, runs,
         generic_entry_args(op.self, call.prompt, call.message, err,
                            call.rofi_args, kwargs),
         call.stdin_str, "pending", "")

(* A typed entry is called. *)
TypedEntry ==
    /\ op.name = "__init__"
    /\ \E name \in AllEntryNames, message \in Messages,
          rofi_args \in {NoArgs, SomeArgs(<<>>), SomeArgs(<<Word("-i")>>)},
          stdin_str \in {"", "x"},
          kwargs \in {<<>>, <<Kw(K_width, IntVal(50))>>} :
          LET a == Typed(op.self, name, "p", message, rofi_args, stdin_str, kwargs)
              c == TypedCall(name, a)
          IN
          /\ op' = a
          /\ ret' = IF c.exc # ""
                    THEN Loop(c.exc, c.params, 0, <<>>, "", "raise", "")
                    ELSE RunDialog(c.params, "", 1, kwargs)
    /\ UNCHANGED procVars

(* lines 524-535: the dialog exits: cancelled, or with text the validator  *)
(* accepts, or with text it rejects with an error, shown by the next run.  *)
TypedEntryExits ==
    /\ ret.outcome = "pending"
    /\ op' = op
    /\ \/ ret' = [ret EXCEPT !.outcome = "return", !.by = "cancel"]
       \/ ret' = [ret EXCEPT !.outcome = "return", !.by = ret.call.validator]
       \/ /\ ret.runs < MaxRuns
          /\ ret' = RunDialog(ret.call, "e", ret.runs + 1, op.kwargs)
    /\ UNCHANGED procVars

WrapNext ==
    \/ TypedEntry
    \/ TypedEntryExits

WrapSpec == WrapInit /\ [][WrapNext]_vars

----------------------------------------------------------------------------
(* Properties. *)

TypedNames == {"integer_entry", "float_entry", "decimal_entry"}

(* The most recent call was select() and its dialog has exited. *)
SelectEnded == op.name = "select" /\ ret.call = "select" /\ ret.outcome # "pending"

(* t is out without its trailing newlines. *)
IsTrimOf(t, out) ==
    /\ Len(t) <= Len(out)
    /\ t = SubSeq(out, 1, Len(t))
    /\ \A i \in (Len(t) + 1)..Len(out) : out[i] = "\n"
    /\ (t # <<>> => t[Len(t)] # "\n")

(* The index rofi reported on stdout: -1 when it wrote nothing. *)
Reported(i, out) == out = IntStr(i) \o <<"\n">> \/ (i = -1 /\ out = <<>>)

(* C1: at most one child process started by the instance is alive: every   *)
(* live child is the one the handle refers to or the blocking dialog being *)
(* waited for, a status process is gone while a later dialog runs, and no  *)
(* child is alive once close() has returned.                               *)
C1_OneLiveChild ==
    /\ Cardinality(alive) <= 1
    /\ alive \subseteq ({_process, dialog} \ {NoProc})
    /\ (pc = "blocked" => alive = {dialog} /\ _process = NoProc)
    /\ (ret = Returned("close", None) => alive = {})

(* A blocking dialog runs after an unresponsive status process was killed. *)
C1_Witness ==
    /\ pc = "blocked"
    /\ Len(events) = 3
    /\ events[2].e = "SIGKILL"
    /\ alive = {dialog}

(* C2: a step that spawns a process while the handle is set has first sent *)
(* SIGINT to the process of the handle, which is gone after the step, and  *)
(* spawns exactly once, last; afterwards the handle is unset for a         *)
(* blocking dialog and refers to the new process for status().             *)
C2_CloseBeforeSpawn ==
    [][((alive' \ alive) # {} /\ _process # NoProc) =>
          /\ events'[1] = Ev("SIGINT", _process)
          /\ \A i \in 1..Len(events') :
                (events'[i].e = "spawn") <=> (i = Len(events'))
          /\ \A i \in 1..(Len(events') - 1) : events'[i].p = _process
          /\ _process \notin alive'
          /\ alive' = {events'[Len(events')].p}
          /\ IF pc' = "blocked"
             THEN _process' = NoProc /\ dialog' = events'[Len(events')].p
             ELSE /\ ret'.call = "status"
                  /\ _process' = events'[Len(events')].p
                  /\ _process' # _process]_vars

(* status() has replaced an unresponsive status process by a new one. *)
C2_Witness ==
    /\ ret = Returned("status", None)
    /\ Len(events) = 3
    /\ events[2] = Ev("SIGKILL", events[1].p)
    /\ _process = events[3].p

(* C3: select() returns (i, 0) when the program exits with code 0 having   *)
(* reported index i of the n options, and (-1, -1) when it exits with      *)
(* code 1, whatever it wrote to stdout.                                    *)
C3_SelectConfirmOrCancel ==
    SelectEnded =>
        /\ \A i \in 0..(op.n - 1) :
              (last.rc = 0 /\ last.out = IntStr(i) \o <<"\n">>)
                  => ret = Returned("select", Pair(i, 0))
        /\ (last.rc = 1 => ret = Returned("select", Pair(-1, -1)))

(* C4: select() with an exit code c above 9 raises SystemExit, with no     *)
(* dialog spawned after its own, if c - 9 is a slot assigned to an exit    *)
(* hotkey, and otherwise returns (index, c - 9).                           *)
C4_CustomKeyOrExit ==
    (SelectEnded /\ last.rc > 9) =>
        IF (last.rc - 9) \in op.exit_keys
        THEN /\ ret = Raised("select", "SystemExit")
             /\ pc \in {"exiting", "terminated"}
             /\ dialog = NoProc
             /\ alive = {}
             /\ \A i \in 1..Len(events) :
                   events[i].e = "spawn" => (pc = "exiting" /\ i = Len(events))
        ELSE \E i \in (-1)..(op.n - 1) :
                /\ Reported(i, last.out)
                /\ ret = Returned("select", Pair(i, last.rc - 9))

(* An exit hotkey given the slot after a custom binding ended the process. *)
C4_Witness ==
    /\ SelectEnded
    /\ pc = "exiting"
    /\ op.user_keys = {10}
    /\ last.rc = 20
    /\ ret = Raised("select", "SystemExit")

(* C5: select() with an exit code other than 0, 1 or one above 9 ends in   *)
(* SystemExit, after the error dialog, and in no other way.                *)
C5_UnexpectedCodeExits ==
    (SelectEnded /\ last.rc \notin {0, 1} /\ last.rc <= 9) =>
        /\ ret = Raised("select", "SystemExit")
        /\ pc \in {"exiting", "terminated"}

(* C6: an entry returns either None for a run that exited with code 1,     *)
(* the validator not called, or the value the validator gave, without      *)
(* error, for the output less its trailing newlines (the text itself with  *)
(* no validator); generic_entry() ends in no other way.                    *)
C6_EntryReturns ==
    (op.name \in EntryNames /\ ret.call = op.name) =>
        /\ (op.name = "generic_entry" => ret.outcome \in {"pending", "return"})
        /\ (ret.outcome = "return" =>
              \/ /\ last.rc = 1
                 /\ ~last.called
                 /\ ret.val = None
              \/ /\ last.rc # 1
                 /\ op.validator = "none"
                 /\ ~last.called
                 /\ ret.val.t = "str"
                 /\ IsTrimOf(ret.val.s, last.out)
              \/ /\ last.rc # 1
                 /\ op.validator # "none"
                 /\ last.called
                 /\ IsTrimOf(last.text, last.out)
                 /\ last.error.fmt \in {"None", ""}
                 /\ ret.val = last.value)

(* generic_entry() returned a validated value after a rejected one. *)
C6_Witness ==
    /\ op.name = "generic_entry"
    /\ ret.outcome = "return"
    /\ last.called
    /\ last.error = NoError
    /\ op.error = Err("Too short", 0)
    /\ ret.val = StrVal(<<"a", "b", "c">>)

(* C7: the first dialog of an entry carries no error; a run whose text the *)
(* validator rejects is followed by exactly one new dialog, whose message  *)
(* starts with that rejection's error, highlighted; the loop is left only  *)
(* by a return, on a cancelled or validated run, and such a run leaves it. *)
C7_RetryLoop ==
    [][LET inLoop == pc = "blocked" /\ op.name \in EntryNames
           rejected == last'.called /\ last'.error.fmt \notin {"None", ""}
           settled == \/ last'.rc = 1
                      \/ last'.called /\ last'.error.fmt \in {"None", ""}
                      \/ last'.rc # 1 /\ op.validator = "none"
       IN
       /\ (pc = "idle" /\ op'.name \in EntryNames /\ ret'.outcome = "pending") =>
             /\ \A i \in 1..Len(op'.mesg) : op'.mesg[i].tag = "text"
             /\ op'.error = Err("", 0)
       /\ (inLoop /\ rejected) =>
             /\ pc' = "blocked"
             /\ op'.name = op.name
             /\ events' = <<Ev("spawn", dialog')>>
             /\ alive' = {dialog'}
             /\ op'.mesg # <<>>
             /\ op'.mesg[1] = Span(last'.error)
             /\ \A i \in 2..Len(op'.mesg) : op'.mesg[i].tag # "span"
       /\ (inLoop /\ pc' # "blocked") =>
             /\ ret'.outcome = "return"
             /\ settled
       /\ (inLoop /\ settled) =>
             /\ pc' = "idle"
             /\ ret'.outcome = "return"
             /\ alive' = {}]_vars

(* A second rejection: the dialog shows its error above the message. *)
C7_Witness ==
    /\ pc = "blocked"
    /\ op.name = "generic_entry"
    /\ op.message = "m"
    /\ last.called
    /\ last.error = Err("Not allowed", 0)
    /\ op.mesg = <<Span(Err("Not allowed", 0)), Newline, Text("m")>>

(* C8: integer_entry, float_entry and decimal_entry with valid limits:     *)
(* text that does not parse gives the parse error of the type and a new    *)
(* prompt, a value within the limits is returned, a value below the        *)
(* minimum or above the maximum gives the boundary error and a new prompt. *)
C8_TypedEntry ==
    (op.name \in TypedNames /\ ret.call = op.name
        /\ ~(op.min.set /\ op.max.set /\ op.min.v >= op.max.v)) =>
        /\ ret.outcome # "raise"
        /\ last.called =>
              LET int == IntParse(last.text)
                  dec == DecParse(last.text)
                  ok == IF op.name = "integer_entry" THEN int.ok ELSE dec.ok
                  c == IF op.name = "integer_entry" THEN int.v ELSE dec.c
                  scale == IF op.name = "integer_entry" THEN 1 ELSE Pow10(dec.k)
                  below == op.min.set /\ c < op.min.v * scale
                  above == op.max.set /\ c > op.max.v * scale
                  again == pc = "blocked" /\ op.error = last.error
              IN
              \/ /\ ~ok
                 /\ last.error.fmt =
                       CASE op.name = "integer_entry" -> "Please enter an integer value."
                         [] op.name = "float_entry" -> "Please enter a floating point value."
                         [] op.name = "decimal_entry" -> "Please enter a decimal value."
                 /\ again
              \/ /\ ok /\ ~below /\ ~above
                 /\ ret.outcome = "return"
                 /\ ret.val.t = CASE op.name = "integer_entry" -> "int"
                                  [] op.name = "float_entry" -> "float"
                                  [] op.name = "decimal_entry" -> "Decimal"
                 /\ ret.val.i = c
                 /\ ret.val.k = (IF op.name = "integer_entry" THEN 0 ELSE dec.k)
              \/ /\ ok /\ below
                 /\ last.error.fmt \in {"The minimum allowable value is {0:d}.",
                                        "The minimum allowable value is {0}."}
                 /\ last.error.arg = op.min.v
                 /\ again
              \/ /\ ok /\ ~below /\ above
                 /\ last.error.fmt \in {"The maximum allowable value is {0:d}.",
                                        "The maximum allowable value is {0}."}
                 /\ last.error.arg = op.max.v
                 /\ again

(* C9: a typed entry called with both limits set and min >= max raises     *)
(* ValueError, spawns nothing and sends nothing, and leaves the status     *)
(* process and its handle as they were.                                    *)
C9_BadLimitsRejected ==
    [][(/\ pc = "idle"
        /\ op'.name \in TypedNames
        /\ ret'.call = op'.name
        /\ (op' # op \/ ret' # ret)
        /\ op'.min.set /\ op'.max.set /\ op'.min.v >= op'.max.v) =>
          /\ ret' = Raised(op'.name, "ValueError")
          /\ pc' = "idle"
          /\ UNCHANGED <<_process, alive, dialog, events>>]_vars

(* decimal_entry() refused equal limits while a status process was shown. *)
C9_Witness ==
    /\ ret = Raised("decimal_entry", "ValueError")
    /\ op.min = Limit(1) /\ op.max = Limit(1)
    /\ _process # NoProc
    /\ _process \in alive
    /\ pc = "idle"

(* C10: close() with no process outstanding sends no signal and changes    *)
(* nothing, and whenever close() has returned the handle is unset: a       *)
(* second close() does nothing more.                                       *)
C10_CloseIdempotent ==
    [][/\ (pc = "idle" /\ op'.name = "close" /\ _process = NoProc) =>
             /\ events' = <<>>
             /\ ret' = Returned("close", None)
             /\ UNCHANGED <<_process, alive, dialog, pc>>
       /\ (ret' = Returned("close", None)) =>
             /\ _process' = NoProc
             /\ \A i \in 1..Len(events') : events'[i].e # "spawn"]_vars

(* close() has returned after killing a status process that ignored SIGINT. *)
C10_Witness ==
    /\ ret = Returned("close", None)
    /\ pc = "idle"
    /\ Len(events) = 2
    /\ events[2].e = "SIGKILL"
    /\ _process = NoProc

(* C11: close() on a status process sends SIGINT first and SIGKILL only to *)
(* a process that has not exited, returns with the handle unset, and ends  *)
(* after a bounded wait on both paths: the polling loop sleeps at most     *)
(* PollLimit times before it is left.                                      *)
C11_CloseEscalates ==
    [][/\ (pc' = "close_poll" => slept' <= PollLimit)
       /\ (events' # events /\ events' # <<>> /\ _process # NoProc) =>
             /\ events'[1] = Ev("SIGINT", _process)
             /\ \A i \in 2..Len(events') :
                   events'[i].e = "SIGKILL" =>
                       /\ i = 2
                       /\ events'[i].p = _process
                       /\ _process \in alive
                       /\ _process \notin alive'
       /\ (ret' = Returned("close", None)) => _process' = NoProc]_vars

(* The places of a flag in a command line. *)
FlagAt(args, flag) == {i \in 1..Len(args) : args[i] = Word(flag)}

(* The value in force for a layout option of the call made: the keyword    *)
(* argument if the call gives one, else the instance's default.            *)
InForce(key, default) == IF Has(op.kwargs, key) THEN Get(op.kwargs, key, None) ELSE default

(* The four layout options that carry a value. *)
ValueOptions ==
    {[flag |-> "-lines", value |-> InForce(K_lines, op.self.lines)],
     [flag |-> "-fixed-num-lines", value |-> InForce(K_fixed_lines, op.self.fixed_lines)],
     [flag |-> "-width", value |-> InForce(K_width, op.self.width)],
     [flag |-> "-location", value |-> InForce(K_location, op.self.location)]}

(* C12: the command line has no flag for a layout option whose value is    *)
(* None, and for every other value, 0 included, the flag exactly once with *)
(* the value after it.                                                     *)
C12_LayoutFlags ==
    op.name # "__init__" =>
        \A o \in ValueOptions :
            IF o.value = None
            THEN FlagAt(ret.args, o.flag) = {}
            ELSE /\ Cardinality(FlagAt(ret.args, o.flag)) = 1
                 /\ \A i \in FlagAt(ret.args, o.flag) :
                       /\ i < Len(ret.args)
                       /\ ret.args[i + 1] = StrOf(o.value)

(* C13: a layout option takes the value the call gives, and the instance's *)
(* default only when the call gives none: a flag on the command line       *)
(* carries the value in force, and a value in force other than None and 0  *)
(* has its flag; '-fullscreen' is there exactly when the value in force is *)
(* true and the dialog is not one of error() and status().                 *)
C13_Precedence ==
    op.name # "__init__" =>
        /\ \A o \in ValueOptions :
              /\ \A i \in FlagAt(ret.args, o.flag) :
                    /\ i < Len(ret.args)
                    /\ o.value.t = "int"
                    /\ ret.args[i + 1] = StrOf(o.value)
              /\ (o.value.t = "int" /\ o.value.i # 0) =>
                    Cardinality(FlagAt(ret.args, o.flag)) = 1
        /\ (FlagAt(ret.args, "-fullscreen") # {}) <=>
              /\ op.name \notin {"error", "status"}
              /\ InForce(K_fullscreen, op.self.fullscreen) = BoolVal(TRUE)

(* status() on a fullscreen instance, asked again for fullscreen and for   *)
(* three lines instead of the instance's two.                              *)
C13_Witness ==
    /\ op.name = "status"
    /\ op.self.fullscreen = BoolVal(TRUE)
    /\ Get(op.kwargs, K_fullscreen, None) = BoolVal(TRUE)
    /\ op.self.lines = IntVal(2)
    /\ Get(op.kwargs, K_lines, None) = IntVal(3)
    /\ FlagAt(ret.args, "-lines") # {}
    /\ FlagAt(ret.args, "-fullscreen") = {}

(* The entity of each of the five characters, and every other character    *)
(* as it is.                                                               *)
EntityOf(c) ==
    CASE c = "&" -> <<"&", "a", "m", "p", ";">>
      [] c = "<" -> <<"&", "l", "t", ";">>
      [] c = ">" -> <<"&", "g", "t", ";">>
      [] c = "\"" -> <<"&", "q", "u", "o", "t", ";">>
      [] c = "'" -> <<"&", "a", "p", "o", "s", ";">>
      [] OTHER -> <<c>>

RECURSIVE EachEntity(_)
EachEntity(string) ==
    IF string = <<>> THEN <<>> ELSE EntityOf(string[1]) \o EachEntity(Tail(string))

IsPrefix(p, string) == Len(p) <= Len(string) /\ SubSeq(string, 1, Len(p)) = p

(* Reading markup back, left to right: an entity gives its character. *)
RECURSIVE Unescape(_)
Unescape(text) ==
    IF text = <<>> THEN <<>>
    ELSE LET found == {c \in {"&", "<", ">", "\"", "'"} : IsPrefix(EntityOf(c), text)} IN
         IF found # {}
         THEN LET c == CHOOSE x \in found : TRUE IN
              <<c>> \o Unescape(SubSeq(text, Len(EntityOf(c)) + 1, Len(text)))
         ELSE <<text[1]>> \o Unescape(Tail(text))

(* C14: escape() replaces each of & < > " ' by its entity and keeps every  *)
(* other character, escaping no ampersand it has itself put in, and        *)
(* reading the result back gives the string.                               *)
C14_EscapeRoundTrip ==
    ret.done =>
        /\ ret.value = EachEntity(op.string)
        /\ Unescape(ret.value) = op.string

(* A string that already holds an entity was escaped. *)
C14_Witness ==
    /\ ret.done
    /\ op.string = <<"&", "l", "t", ";">>
    /\ ret.value = <<"&", "a", "m", "p", ";", "l", "t", ";">>

(* C15: when the interpreter exits, after the caller is done or after the  *)
(* SystemExit of select() or exit_with_error(), close() runs on the        *)
(* instance: a status process then outstanding is sent SIGINT at once, and *)
(* when the interpreter is gone no child is alive and the handle is unset. *)
C15_ClosedAtExit ==
    [][/\ (pc = "exiting" /\ _process # NoProc) =>
             /\ events' # <<>>
             /\ events'[1] = Ev("SIGINT", _process)
       /\ (pc' = "terminated") =>
             /\ alive' = {}
             /\ _process' = NoProc
             /\ dialog' = NoProc]_vars

(* The interpreter has exited with a status process shown that ignored     *)
(* SIGINT: the exit handler killed it.                                     *)
C15_Witness ==
    /\ pc = "terminated"
    /\ Len(events) = 2
    /\ events[1].e = "SIGINT"
    /\ events[2] = Ev("SIGKILL", events[1].p)
    /\ alive = {}

(* The text after 'key' in the name of a keyword argument. *)
Numeral(kw) == SubSeq(kw.k, 4, Len(kw.k))

(* C16: in the command line of select(), after the arguments of the        *)
(* caller's numbered bindings, each exit hotkey has exactly one            *)
(* '-kb-custom-<slot>' argument followed by the hotkey; the slots are at   *)
(* least 10, increasing, none the number of a caller's binding, and each   *)
(* the lowest number from 10 up that no binding and no earlier hotkey has. *)
C16_ExitSlots ==
    op.name = "select" =>
        LET numbered == {j \in 1..Len(op.kwargs) : IsDigits(Numeral(op.kwargs[j]))}
            claimed == {NatOf(Numeral(op.kwargs[j])) : j \in numbered}
            n == Len(exit_hotkeys)
            at(i) == 6 + 2 * Cardinality(numbered) + 2 * i - 1
            slot(i) == NatOf(ret.args[at(i)].sfx)
        IN
        /\ Len(ret.args) >= 6 + 2 * Cardinality(numbered) + 2 * n
        /\ Cardinality({p \in 1..Len(ret.args) : ret.args[p].lit = "-kb-custom-"})
              = Cardinality(numbered) + n
        /\ \A i \in 1..n :
              /\ ret.args[at(i)].lit = "-kb-custom-"
              /\ IsDigits(ret.args[at(i)].sfx)
              /\ ret.args[at(i)].sfx = IntStr(slot(i))
              /\ ret.args[at(i) + 1] = Word(exit_hotkeys[i])
              /\ Cardinality({p \in 1..Len(ret.args) :
                                 ret.args[p] = ret.args[at(i)]}) = 1
              /\ slot(i) >= 10
              /\ slot(i) \notin claimed
              /\ \A j \in 1..(i - 1) : slot(j) < slot(i)
              /\ \A m \in 10..(slot(i) - 1) :
                    m \in claimed \/ \E j \in 1..(i - 1) : slot(j) = m

(* Two exit hotkeys, and bindings key010 and key11 of the caller: the      *)
(* hotkeys have the slots 12 and 13.                                       *)
C16_Witness ==
    /\ op.name = "select"
    /\ exit_hotkeys = <<"Alt+F4", "Control+q">>
    /\ Len(op.kwargs) = 2
    /\ op.kwargs[1].k = <<"k", "e", "y", "0", "1", "0">>
    /\ op.kwargs[2].k = <<"k", "e", "y", "1", "1">>
    /\ \E p \in 1..(Len(ret.args) - 3) :
          /\ ret.args[p] = Arg("-kb-custom-", <<"1", "2">>)
          /\ ret.args[p + 1] = Word("Alt+F4")
          /\ ret.args[p + 2] = Arg("-kb-custom-", <<"1", "3">>)
          /\ ret.args[p + 3] = Word("Control+q")

(* The validator each typed entry defines. *)
ValidatorOf(name) ==
    CASE name = "text_entry" -> "text_validator"
      [] name = "integer_entry" -> "integer_validator"
      [] name = "float_entry" -> "float_validator"
      [] name = "decimal_entry" -> "decimal_validator"
      [] name = "date_entry" -> "date_validator"
      [] name = "time_entry" -> "time_validator"
      [] name = "datetime_entry" -> "datetime_validator"

IsSuffix(q, args) ==
    Len(q) <= Len(args) /\ SubSeq(args, Len(args) - Len(q) + 1, Len(args)) = q

(* C17: every typed entry runs generic_entry() with its own validator and  *)
(* the caller's prompt, message, rofi_args and stdin_str as given: it does *)
(* not raise, every dialog it shows has the caller's rofi_args at the end  *)
(* of its command line and the caller's stdin_str as input, and it returns *)
(* on a cancelled run or with what its validator accepted.                 *)
C17_TypedEntriesPassThrough ==
    op.name \in AllEntryNames =>
        /\ ret.exc = ""
        /\ ret.outcome \in {"pending", "return"}
        /\ ret.call.prompt = op.prompt
        /\ ret.call.validator = ValidatorOf(op.name)
        /\ ret.call.message = op.message
        /\ ret.call.rofi_args = op.rofi_args
        /\ ret.call.stdin_str = op.stdin_str
        /\ ret.runs >= 1
        /\ IsSuffix(OrEmpty(op.rofi_args), ret.args)
        /\ ret.input = op.stdin_str
        /\ (ret.outcome = "return" => ret.by \in {"cancel", ValidatorOf(op.name)})

====
